---- MODULE Spec2Model ----
(***************************************************************************)
(* Client-side authentication session manager (auth script of medicobot). *)
(* One browser tab: the persistent store (localStorage), the current       *)
(* document, its pending fetch continuations, its timers and its modal     *)
(* confirm() dialog.                                                       *)
(***************************************************************************)
EXTENDS Integers, Sequences, FiniteSets, TLC

(* ------------------------------------------------------------------ *)
(* Bounds of the model                                                 *)
(* ------------------------------------------------------------------ *)
\* awaiting fetch continuations per handler kind
MaxInFlight == 1
\* identifiers available to setTimeout
MaxTimers == 2
\* partial advances of the clock per document
MaxPartialTicks == 1

(* ------------------------------------------------------------------ *)
(* Values                                                              *)
(* ------------------------------------------------------------------ *)
\* getItem's null / a missing property of a response
Absent == "<absent>"

Keys == {"auth_token", "user_data", "remember_me", "remembered_username"}

\* tokens and profiles a server may return; "" is a falsy token
Tokens == {"abc", "xyz"}
Users == {"alice"}
Usernames == {"alice"}
Redirects == {"/dashboard"}
Messages == {"Invalid credentials"}

\* JSON.stringify of a profile record {username: u}
Stringify(u) == "{\"username\":\"" \o u \o "\"}"

\* JS truthiness of an optional string
Truthy(v) == v # Absent /\ v # ""

\* a || b
OrElse(a, b) == IF Truthy(a) THEN a ELSE b

Pages == {"/", "/home", "/login", "/register", "/login?timeout=true", "/dashboard"}

\* which elements the document at a location contains
HasLoginForm(loc) == loc \in {"/login", "/login?timeout=true"}
HasRegisterForm(loc) == loc = "/register"
HasLogoutLink(loc) == loc \in Pages
HasRememberCheckbox(loc) == HasLoginForm(loc)
HasAuthForm(loc) == HasLoginForm(loc) \/ HasRegisterForm(loc)

\* responses of POST /login: {token?, user?, redirect?, message?} with response.ok
LoginResponses ==
    [ok : BOOLEAN,
     token : Tokens \cup {Absent, ""},
     user : Users \cup {Absent},
     redirect : Redirects \cup {Absent},
     message : Messages \cup {Absent}]

\* responses of POST /register: {message?} with response.ok
RegisterResponses == [ok : BOOLEAN, message : Messages \cup {Absent}]

\* a fetch that rejects, or a body that is not JSON
NetworkError == [ok |-> FALSE, failed |-> TRUE]

IsNetworkError(r) == "failed" \in DOMAIN r

VARIABLES
    store,            \* localStorage: key -> string or Absent
    location,         \* window.location.href
    page,             \* "loading" | "ready"
    links,            \* style.display of the .auth-link elements
    rememberChecked,  \* input[name="remember"].checked
    usernameValue,    \* input[name="username"].value
    authError,        \* text of the .auth-error element, or Absent
    authSuccess,      \* text of the .auth-success element, or Absent
    loginPending,     \* login submit handlers suspended at await fetch
    registerPending,  \* register submit handlers suspended at await fetch
    logoutPending,    \* logout click handlers suspended at await fetch
    dialog,           \* open confirm() dialog: "none" | "logout" | "inactivity"
    timers,           \* pending setTimeout callbacks
    timeout,          \* setupAutoLogout's timer handle (0: undefined)
    armed,            \* activity listeners registered by setupAutoLogout
    ticks,            \* partial clock advances seen by this document
    idle,             \* ms since the armed listeners last saw the user, up to logoutTime
    candidate,        \* the credential handed to Auth.checkPasswordStrength
    strength          \* the {score, maxScore, feedback} it returned

vars == <<store, location, page, links, rememberChecked, usernameValue,
          authError, authSuccess, loginPending, registerPending, logoutPending,
          dialog, timers, timeout, armed, ticks, idle, candidate, strength>>

dom == <<links, rememberChecked, usernameValue, authError, authSuccess>>
pending == <<loginPending, registerPending, logoutPending>>
clock == <<timers, timeout, armed, ticks, idle>>
meter == <<candidate, strength>>
session == <<store, location, page, dom, pending, dialog, clock>>

HasToken(s) == s["auth_token"] # Absent
HasUser(s) == s["user_data"] # Absent

(* ------------------------------------------------------------------ *)
(* UI projection                                                       *)
(* ------------------------------------------------------------------ *)
UnsetLinks == [login |-> "", register |-> "", profile |-> "", logout |-> ""]

updateUIForLoggedInUser ==
    [login |-> "none", register |-> "none", profile |-> "block", logout |-> "block"]

updateUIForGuest ==
    [login |-> "block", register |-> "block", profile |-> "none", logout |-> "none"]

checkAuthStatusOr(s) ==
    IF Truthy(s["auth_token"]) \/ Truthy(s["user_data"])
    THEN updateUIForLoggedInUser
    ELSE updateUIForGuest

checkAuthStatus(s) ==
    IF Truthy(s["auth_token"]) /\ Truthy(s["user_data"])
    THEN updateUIForLoggedInUser
    ELSE updateUIForGuest

(* ------------------------------------------------------------------ *)
(* Program constants                                                   *)
(* ------------------------------------------------------------------ *)
\* password.length < 6
MinPasswordLength == 6
\* setTimeout(..., 2000) before the redirect to /login
RedirectDelay == 2000
\* 30 * 60 * 1000
logoutTime == 1800000

\* credentials typed into #password and #confirm_password
Passwords ==
    {<<"a", "b", "c", "1", "2">>,
     <<"a", "b", "c", "1", "2", "3">>,
     <<"x", "y", "z", "7", "8", "9">>}

\* clock advances that stop short of the next deadline (1 s, 29 min)
PartialSteps == {1000, 29 * 60 * 1000}

(* ------------------------------------------------------------------ *)
(* Password strength                                                   *)
(* ------------------------------------------------------------------ *)
Lowercase == {"a", "b", "c", "d", "e", "f", "g", "h", "i", "j", "k", "l", "m",
              "n", "o", "p", "q", "r", "s", "t", "u", "v", "w", "x", "y", "z"}
Uppercase == {"A", "B", "C", "D", "E", "F", "G", "H", "I", "J", "K", "L", "M",
              "N", "O", "P", "Q", "R", "S", "T", "U", "V", "W", "X", "Y", "Z"}
Digits == {"0", "1", "2", "3", "4", "5", "6", "7", "8", "9"}

\* regex.test(password) for a character class
Test(class, pw) == \E i \in 1 .. Len(pw) : pw[i] \in class

\* /[^A-Za-z0-9]/.test(password)
TestOutside(class, pw) == \E i \in 1 .. Len(pw) : pw[i] \notin class

\* feedback.join(', ')
RECURSIVE Join(_, _)
Join(parts, sep) ==
    IF Len(parts) = 0 THEN ""
    ELSE IF Len(parts) = 1 THEN parts[1]
    ELSE parts[1] \o sep \o Join(Tail(parts), sep)

LengthOkStrict(pw) == Len(pw) > 8

\* password.length >= 8
LengthOk(pw) == Len(pw) >= 8

\* one check of checkPasswordStrength: strength++ or feedback.push(missing)
Checked(acc, passed, missing) ==
    IF passed
    THEN [strength |-> acc.strength + 1, feedback |-> acc.feedback]
    ELSE [strength |-> acc.strength, feedback |-> Append(acc.feedback, missing)]

checkPasswordStrength(pw) ==
    LET c0 == [strength |-> 0, feedback |-> <<>>]
        c1 == Checked(c0, LengthOk(pw), "At least 8 characters")
        c2 == Checked(c1, Test(Lowercase, pw), "Lowercase letters")
        c3 == Checked(c2, Test(Uppercase, pw), "Uppercase letters")
        c4 == Checked(c3, Test(Digits, pw), "Numbers")
        c5 == Checked(c4, TestOutside(Lowercase \cup Uppercase \cup Digits, pw),
                      "Special characters")
    IN  [score |-> c5.strength,
         maxScore |-> 5,
         feedback |-> IF Len(c5.feedback) > 0
                      THEN "Add: " \o Join(c5.feedback, ", ")
                      ELSE "Strong password!"]

(* ------------------------------------------------------------------ *)
(* Timers                                                              *)
(* ------------------------------------------------------------------ *)
TimerIds == 1 .. MaxTimers

Min(S) == CHOOSE x \in S : \A y \in S : x <= y

FreeIds(ts, avoid) == TimerIds \ ({t.id : t \in ts} \cup {avoid})

\* setTimeout(callback kind, delay): the timer set with one more timer
setTimeout(ts, kind, delay, avoid) ==
    ts \cup {[id |-> Min(FreeIds(ts, avoid)), kind |-> kind, delay |-> delay, elapsed |-> 0]}

clearTimeout(ts, h) == {t \in ts : t.id # h}

Due(t) == t.elapsed >= t.delay

resetTimerLazy(ts, h) ==
    IF \E t \in ts : t.id = h
    THEN [timers |-> ts, timeout |-> h]
    ELSE [timers |-> ts \cup {[id |-> Min(FreeIds(ts, 0)), kind |-> "inactivity",
                               delay |-> logoutTime, elapsed |-> 0]},
          timeout |-> Min(FreeIds(ts, 0))]

resetTimerNoClear(ts, h) ==
    [timers |-> ts \cup {[id |-> Min(FreeIds(ts, 0)), kind |-> "inactivity",
                          delay |-> logoutTime, elapsed |-> 0]},
     timeout |-> Min(FreeIds(ts, 0))]

\* resetTimer: cancel the countdown the handle names, start a full one
resetTimer(ts, h) ==
    LET cleared == clearTimeout(ts, h)
        id == Min(FreeIds(cleared, 0))
    IN  [timers |-> cleared \cup {[id |-> id, kind |-> "inactivity",
                                   delay |-> logoutTime, elapsed |-> 0]},
         timeout |-> id]

(* ------------------------------------------------------------------ *)
(* Navigation and page load                                            *)
(* ------------------------------------------------------------------ *)
\* window.location.href = target: the document and all it owns go away
Navigate(target) ==
    /\ location' = target
    /\ page' = "loading"
    /\ links' = UnsetLinks
    /\ rememberChecked' = FALSE
    /\ usernameValue' = ""
    /\ authError' = Absent
    /\ authSuccess' = Absent
    /\ loginPending' = 0
    /\ registerPending' = 0
    /\ logoutPending' = 0
    /\ dialog' = "none"
    /\ timers' = {}
    /\ timeout' = 0
    /\ armed' = FALSE
    /\ ticks' = 0
    /\ idle' = 0
    /\ UNCHANGED meter

Ready == page = "ready" /\ dialog = "none"

\* the module-level guard of setupAutoLogout
ShouldArmAlways(s) == TRUE

ShouldArm(s) == Truthy(s["auth_token"])

\* setupRememberMe's restore of the checkbox and the username field
RememberRestored(s, loc) == HasRememberCheckbox(loc) /\ s["remember_me"] = "true"

\* script evaluation (auto-logout guard) and DOMContentLoaded (initAuth)
PageLoad ==
    /\ page = "loading"
    /\ page' = "ready"
    /\ armed' = ShouldArm(store)
    /\ IF ShouldArm(store)
       THEN /\ timers' = resetTimer(timers, timeout).timers
            /\ timeout' = resetTimer(timers, timeout).timeout
       ELSE UNCHANGED <<timers, timeout>>
    /\ links' = checkAuthStatus(store)
    /\ rememberChecked' = RememberRestored(store, location)
    /\ usernameValue' =
         IF RememberRestored(store, location) /\ Truthy(store["remembered_username"])
         THEN store["remembered_username"]
         ELSE ""
    /\ idle' = 0
    /\ UNCHANGED <<store, location, meter, authError, authSuccess, pending, dialog, ticks>>

\* the user opens a page of the site
UserNavigate(target) ==
    /\ Ready
    /\ Navigate(target)
    /\ UNCHANGED store

(* ------------------------------------------------------------------ *)
(* Notifications                                                       *)
(* ------------------------------------------------------------------ *)
\* showAuthError: replaces any previous error; inserted only into .auth-form
showAuthError(msg, loc) == IF HasAuthForm(loc) THEN msg ELSE Absent

showAuthSuccess(msg, loc, old) == IF HasAuthForm(loc) THEN msg ELSE old

\* the auto-remove timers of showAuthError (5 s, then 300 ms) take the
\* element away at some later moment
ErrorAutoRemove ==
    /\ Ready
    /\ authError # Absent
    /\ authError' = Absent
    /\ UNCHANGED <<store, location, meter, page, links, rememberChecked, usernameValue,
                   authSuccess, pending, dialog, clock>>

(* ------------------------------------------------------------------ *)
(* Login                                                               *)
(* ------------------------------------------------------------------ *)
LoginSubmit ==
    /\ Ready
    /\ HasLoginForm(location)
    /\ loginPending < MaxInFlight
    /\ loginPending' = loginPending + 1
    /\ UNCHANGED <<store, location, meter, page, dom, registerPending, logoutPending,
                   dialog, clock>>

\* the writes of the response.ok branch
LoginWrites(s, r, checked) ==
    LET s1 == IF Truthy(r.token) THEN [s EXCEPT !["auth_token"] = r.token] ELSE s
        s2 == IF r.user # Absent
              THEN [s1 EXCEPT !["user_data"] = Stringify(r.user)] ELSE s1
    IN  IF checked THEN [s2 EXCEPT !["remember_me"] = "true"] ELSE s2

LoginSucceeds(r) == ~IsNetworkError(r) /\ r.ok

LoginStoreEager(s, r, checked) ==
    IF IsNetworkError(r) THEN s ELSE LoginWrites(s, r, checked)

\* the store after the login handler has seen response r
LoginStore(s, r, checked) ==
    IF LoginSucceeds(r) THEN LoginWrites(s, r, checked) ELSE s

LoginErrorText(r) ==
    IF IsNetworkError(r) THEN "Network error. Please try again."
    ELSE OrElse(r.message, "Login failed")

\* continuation of the login submit handler after await fetch / response.json()
LoginResume(r) ==
    /\ Ready
    /\ loginPending > 0
    /\ store' = LoginStore(store, r, rememberChecked)
    /\ IF LoginSucceeds(r)
       THEN Navigate(OrElse(r.redirect, "/home"))
       ELSE /\ loginPending' = loginPending - 1
            /\ authError' = showAuthError(LoginErrorText(r), location)
            /\ UNCHANGED <<location, meter, page, links, rememberChecked, usernameValue,
                           authSuccess, registerPending, logoutPending, dialog, clock>>

(* ------------------------------------------------------------------ *)
(* Registration                                                        *)
(* ------------------------------------------------------------------ *)
RegisterValidNoLength(password, confirmPassword) == password = confirmPassword

\* the client-side preconditions of the register submit handler
RegisterValid(password, confirmPassword) ==
    /\ password = confirmPassword
    /\ ~(Len(password) < MinPasswordLength)

RegisterRejection(password, confirmPassword) ==
    IF password # confirmPassword THEN "Passwords do not match"
    ELSE "Password must be at least 6 characters long"

RegisterSubmit(password, confirmPassword) ==
    /\ Ready
    /\ HasRegisterForm(location)
    /\ IF RegisterValid(password, confirmPassword)
       THEN /\ registerPending < MaxInFlight
            /\ registerPending' = registerPending + 1
            /\ UNCHANGED authError
       ELSE /\ authError' =
                 showAuthError(RegisterRejection(password, confirmPassword), location)
            /\ UNCHANGED registerPending
    /\ UNCHANGED <<store, location, meter, page, links, rememberChecked, usernameValue,
                   authSuccess, loginPending, logoutPending, dialog, clock>>

RegisterSucceeds(r) == ~IsNetworkError(r) /\ r.ok

RegisterErrorText(r) ==
    IF IsNetworkError(r) THEN "Network error. Please try again."
    ELSE OrElse(r.message, "Registration failed")

RegisterSchedulesAlways(r) == TRUE

\* whether the handler schedules the redirect to /login for response r
RegisterSchedules(r) == RegisterSucceeds(r)

\* continuation of the register submit handler after await fetch / response.json()
RegisterResume(r) ==
    /\ Ready
    /\ registerPending > 0
    /\ registerPending' = registerPending - 1
    /\ IF RegisterSucceeds(r)
       THEN /\ authSuccess' =
                 showAuthSuccess("Registration successful! Redirecting to login...",
                                 location, authSuccess)
            /\ UNCHANGED authError
       ELSE /\ authError' = showAuthError(RegisterErrorText(r), location)
            /\ UNCHANGED authSuccess
    /\ IF RegisterSchedules(r)
       THEN /\ FreeIds(timers, timeout) # {}
            /\ timers' = setTimeout(timers, "redirect", RedirectDelay, timeout)
       ELSE UNCHANGED timers
    /\ UNCHANGED <<store, location, meter, page, links, rememberChecked, usernameValue,
                   loginPending, logoutPending, dialog, timeout, armed, ticks, idle>>

\* the callback of the 2-second timer: window.location.href = '/login'
RedirectFire(t) ==
    /\ Ready
    /\ t \in timers
    /\ t.kind = "redirect"
    /\ Due(t)
    /\ Navigate("/login")
    /\ UNCHANGED store

(* ------------------------------------------------------------------ *)
(* Logout                                                              *)
(* ------------------------------------------------------------------ *)
\* click on .logout-link: confirm('Are you sure you want to logout?') opens
LogoutClick ==
    /\ Ready
    /\ HasLogoutLink(location)
    /\ links.logout # "none"
    /\ dialog' = "logout"
    /\ UNCHANGED <<store, location, meter, page, dom, pending, clock>>

LogoutProceedsAlways(answer) == TRUE

\* if (confirm(...))
LogoutProceeds(answer) == answer

\* the user answers the logout confirmation
LogoutAnswer(answer) ==
    /\ page = "ready"
    /\ dialog = "logout"
    /\ dialog' = "none"
    /\ IF LogoutProceeds(answer)
       THEN /\ logoutPending < MaxInFlight
            /\ logoutPending' = logoutPending + 1
       ELSE UNCHANGED logoutPending
    /\ UNCHANGED <<store, location, meter, page, dom, loginPending, registerPending, clock>>

\* the three removeItem calls after await fetch('/logout')
LogoutClear(s) ==
    [s EXCEPT !["auth_token"] = Absent, !["user_data"] = Absent,
              !["remember_me"] = Absent]

\* continuation of the logout click handler: fetch resolved (any HTTP status)
\* or rejected (the catch block only logs)
LogoutResume(resolved) ==
    /\ Ready
    /\ logoutPending > 0
    /\ IF resolved
       THEN /\ store' = LogoutClear(store)
            /\ Navigate("/")
       ELSE /\ logoutPending' = logoutPending - 1
            /\ UNCHANGED <<store, location, meter, page, dom, loginPending, registerPending,
                           dialog, clock>>

(* ------------------------------------------------------------------ *)
(* Remember me                                                         *)
(* ------------------------------------------------------------------ *)
\* the change handler of input[name="remember"], with the new checked state
RememberStore(s, checked, username) ==
    IF checked
    THEN LET s1 == IF Truthy(username)
                   THEN [s EXCEPT !["remembered_username"] = username] ELSE s
         IN  [s1 EXCEPT !["remember_me"] = "true"]
    ELSE [s EXCEPT !["remembered_username"] = Absent, !["remember_me"] = Absent]

RememberChange ==
    /\ Ready
    /\ HasRememberCheckbox(location)
    /\ rememberChecked' = ~rememberChecked
    /\ store' = RememberStore(store, ~rememberChecked, usernameValue)
    /\ UNCHANGED <<location, meter, page, links, usernameValue, authError, authSuccess,
                   pending, dialog, clock>>

\* the user types into input[name="username"]
TypeUsername(v) ==
    /\ Ready
    /\ HasLoginForm(location)
    /\ v # usernameValue
    /\ usernameValue' = v
    /\ UNCHANGED <<store, location, meter, page, links, rememberChecked, authError,
                   authSuccess, pending, dialog, clock>>

(* ------------------------------------------------------------------ *)
(* Inactivity expiry                                                   *)
(* ------------------------------------------------------------------ *)
\* mousedown, mousemove, keypress, scroll, touchstart
ActivityEvents == {"mousedown", "mousemove", "keypress", "scroll", "touchstart"}

Activity(event) ==
    /\ Ready
    /\ armed
    /\ timers' = resetTimer(timers, timeout).timers
    /\ timeout' = resetTimer(timers, timeout).timeout
    /\ idle' = 0
    /\ UNCHANGED <<store, location, meter, page, dom, pending, dialog, armed, ticks>>

PromptsOnExpiryAlways(s) == TRUE

\* if (localStorage.getItem('auth_token')) at the head of logoutDueToInactivity
PromptsOnExpiry(s) == Truthy(s["auth_token"])

\* logoutDueToInactivity up to its confirm(): the countdown has elapsed
InactivityFire(t) ==
    /\ Ready
    /\ t \in timers
    /\ t.kind = "inactivity"
    /\ Due(t)
    /\ timers' = timers \ {t}
    /\ dialog' = IF PromptsOnExpiry(store) THEN "inactivity" ELSE "none"
    /\ UNCHANGED <<store, location, meter, page, dom, pending, timeout, armed, ticks, idle>>

InactivityClearTokenOnly(s) == [s EXCEPT !["auth_token"] = Absent]

\* removeItem('auth_token'); removeItem('user_data')
InactivityClear(s) == [s EXCEPT !["auth_token"] = Absent, !["user_data"] = Absent]

\* the user answers 'Do you want to stay logged in?'
InactivityAnswer(stay) ==
    /\ page = "ready"
    /\ dialog = "inactivity"
    /\ IF stay
       THEN /\ dialog' = "none"
            /\ timers' = resetTimer(timers, timeout).timers
            /\ timeout' = resetTimer(timers, timeout).timeout
            /\ idle' = 0
            /\ UNCHANGED <<store, location, meter, page, dom, pending, armed, ticks>>
       ELSE /\ store' = InactivityClear(store)
            /\ Navigate("/login?timeout=true")

(* ------------------------------------------------------------------ *)
(* Other tabs of the same origin                                       *)
(* ------------------------------------------------------------------ *)
\* another tab running this script removes the session from the shared
\* store: its logout handler completes, or its inactivity prompt is declined
OtherTabLogout(byInactivity) ==
    /\ HasToken(store) \/ HasUser(store)
    /\ store' = IF byInactivity THEN InactivityClear(store) ELSE LogoutClear(store)
    /\ UNCHANGED <<location, meter, page, dom, pending, dialog, clock>>

(* ------------------------------------------------------------------ *)
(* Time                                                                *)
(* ------------------------------------------------------------------ *)
Advance(ts, d) ==
    {[t EXCEPT !.elapsed = IF t.elapsed + d > t.delay THEN t.delay ELSE t.elapsed + d]
       : t \in ts}

\* time to the nearest deadline not reached yet
NextDue(ts) == Min({t.delay - t.elapsed : t \in {u \in ts : ~Due(u)}})

\* d milliseconds pass; timers fire no earlier than their delay
Tick(d) ==
    /\ page = "ready"
    /\ \E t \in timers : ~Due(t)
    /\ \/ d = NextDue(timers) /\ UNCHANGED ticks
       \/ /\ d \in PartialSteps
          /\ d < NextDue(timers)
          /\ ticks < MaxPartialTicks
          /\ ticks' = ticks + 1
    /\ timers' = Advance(timers, d)
    /\ idle' = IF ~armed THEN idle
               ELSE IF idle + d > logoutTime THEN logoutTime ELSE idle + d
    /\ UNCHANGED <<store, location, meter, page, dom, pending, dialog, timeout, armed>>

Init ==
    /\ store = [k \in Keys |-> Absent]
    /\ location = "/"
    /\ page = "loading"
    /\ links = UnsetLinks
    /\ rememberChecked = FALSE
    /\ usernameValue = ""
    /\ authError = Absent
    /\ authSuccess = Absent
    /\ loginPending = 0
    /\ registerPending = 0
    /\ logoutPending = 0
    /\ dialog = "none"
    /\ timers = {}
    /\ timeout = 0
    /\ armed = FALSE
    /\ ticks = 0
    /\ idle = 0
    /\ candidate = <<>>
    /\ strength = checkPasswordStrength(<<>>)

Next ==
    \/ PageLoad
    \/ \E target \in {"/", "/login", "/register"} : UserNavigate(target)
    \/ ErrorAutoRemove
    \/ LoginSubmit
    \/ \E r \in LoginResponses \cup {NetworkError} : LoginResume(r)
    \/ \E password, confirmPassword \in Passwords : RegisterSubmit(password, confirmPassword)
    \/ \E r \in RegisterResponses \cup {NetworkError} : RegisterResume(r)
    \/ \E t \in timers : RedirectFire(t)
    \/ LogoutClick
    \/ \E answer \in BOOLEAN : LogoutAnswer(answer)
    \/ \E resolved \in BOOLEAN : LogoutResume(resolved)
    \/ RememberChange
    \/ \E v \in Usernames \cup {""} : TypeUsername(v)
    \/ \E event \in ActivityEvents : Activity(event)
    \/ \E t \in timers : InactivityFire(t)
    \/ \E stay \in BOOLEAN : InactivityAnswer(stay)
    \/ \E byInactivity \in BOOLEAN : OtherTabLogout(byInactivity)
    \/ \E d \in PartialSteps \cup {t.delay - t.elapsed : t \in timers} : Tick(d)

Spec == Init /\ [][Next]_vars

(* ------------------------------------------------------------------ *)
(* Password strength evaluation on its own                             *)
(* ------------------------------------------------------------------ *)
\* longest candidate credential
MaxPasswordLen == 8

\* one character of each class the checks tell apart
PasswordChars == {"a", "Z", "7", "!"}

\* Auth.checkPasswordStrength on the credential with one more character
TypePassword(c) ==
    /\ Len(candidate) < MaxPasswordLen
    /\ candidate' = Append(candidate, c)
    /\ strength' = checkPasswordStrength(candidate')
    /\ UNCHANGED session

\* Auth.checkPasswordStrength on the credential with its last character erased
ErasePassword ==
    /\ Len(candidate) > 0
    /\ candidate' = SubSeq(candidate, 1, Len(candidate) - 1)
    /\ strength' = checkPasswordStrength(candidate')
    /\ UNCHANGED session

StrengthNext ==
    \/ \E c \in PasswordChars : TypePassword(c)
    \/ ErasePassword

StrengthSpec == Init /\ [][StrengthNext]_vars

(* ------------------------------------------------------------------ *)
(* Claims                                                              *)
(* ------------------------------------------------------------------ *)
AllLoginResponses == LoginResponses \cup {NetworkError}
AllRegisterResponses == RegisterResponses \cup {NetworkError}
FailedLoginResponses == {r \in AllLoginResponses : ~LoginSucceeds(r)}
OkLoginResponses == {r \in LoginResponses : r.ok}
FailedRegisterResponses == {r \in AllRegisterResponses : ~RegisterSucceeds(r)}

\* C1: in every reachable state of the store, auth_token and user_data are
\* both present or both absent.
C1_TokenProfileTogether == HasToken(store) <=> HasUser(store)

\* C2: on bootstrap the links are put into the authenticated state iff both
\* auth_token and user_data are present, and into the guest state iff at
\* least one is absent.
C2_BootstrapProjection ==
    [][(page = "loading" /\ page' = "ready") =>
         /\ (links' = updateUIForLoggedInUser <=> (HasToken(store) /\ HasUser(store)))
         /\ (links' = updateUIForGuest <=> (~HasToken(store) \/ ~HasUser(store)))]_vars

\* a document bootstrapped over a store holding a token without a profile
C2_Witness ==
    /\ page = "ready"
    /\ HasToken(store) /\ ~HasUser(store)
    /\ links = updateUIForGuest

\* C3: a login submission that fails (non-ok response, or the request cannot
\* complete) leaves all four store keys as they were, does not navigate, and
\* shows the error notification.
C3_FailedLoginKeepsSession ==
    [][loginPending > 0 => \A r \in FailedLoginResponses :
         LoginResume(r) =>
            /\ store' = store
            /\ location' = location
            /\ page' = page
            /\ authError' = LoginErrorText(r)
            /\ authSuccess' = authSuccess]_vars

\* a failed login on a document whose store holds a session
C3_Witness ==
    /\ HasLoginForm(location)
    /\ authError = "Network error. Please try again."
    /\ HasToken(store) /\ HasUser(store)
    /\ store["remembered_username"] # Absent

\* C4: when the server reports ok, the login handler ends with auth_token
\* holding the returned token and user_data holding the returned profile, and
\* navigates to the supplied redirect target, or to /home without one.
C4_OkLoginStoresSession ==
    [][loginPending > 0 => \A r \in OkLoginResponses :
         LoginResume(r) =>
            /\ HasToken(store') /\ store'["auth_token"] = r.token
            /\ HasUser(store') /\ store'["user_data"] = Stringify(r.user)
            /\ location' = OrElse(r.redirect, "/home")
            /\ page' = "loading"]_vars

\* C5: after a confirmed logout the local cleanup happens whether the
\* POST /logout request succeeds or fails.
C5_LogoutCleanupAlways ==
    [][\A resolved \in BOOLEAN :
         LogoutResume(resolved) =>
            /\ ~HasToken(store') /\ ~HasUser(store')
            /\ location' = "/"
            /\ page' = "loading"]_vars

\* C6: a confirmed logout that completes leaves no token, no profile and no
\* remember-state (remember_me, remembered_username) and navigates to "/".
C6_LogoutClearsRememberState ==
    [][LogoutResume(TRUE) =>
         /\ \A k \in Keys : store'[k] = Absent
         /\ location' = "/"
         /\ page' = "loading"]_vars

\* C7: auth_token and user_data are removed only by a logout the user
\* confirmed or by an inactivity prompt the user declined (in this tab, or
\* by the same handlers of another tab sharing the store); declining the
\* logout confirmation changes no store key, sends no request and does not
\* navigate.
C7_RemovalOnlyOnConfirmation ==
    [][/\ ((HasToken(store) /\ ~HasToken(store')) \/ (HasUser(store) /\ ~HasUser(store')))
          => \/ logoutPending > 0 /\ dialog = "none" /\ location' = "/"
             \/ dialog = "inactivity" /\ location' = "/login?timeout=true"
             \/ \E byInactivity \in BOOLEAN : OtherTabLogout(byInactivity)
       /\ logoutPending' > logoutPending => dialog = "logout"
       /\ LogoutAnswer(FALSE) =>
            /\ store' = store
            /\ location' = location
            /\ page' = page
            /\ pending' = pending]_vars

\* the session was removed by a declined inactivity prompt
C7_Witness ==
    /\ location = "/login?timeout=true"
    /\ page = "loading"
    /\ ~HasToken(store) /\ ~HasUser(store)

\* C8: a registration submission whose confirmation differs from the
\* credential, or whose credential has fewer than 6 characters, is rejected
\* with an error notification and issues no request to POST /register.
C8_RegisterValidation ==
    [][HasRegisterForm(location) => \A password, confirmPassword \in Passwords :
         (RegisterSubmit(password, confirmPassword)
            /\ (password # confirmPassword \/ Len(password) < 6)) =>
            /\ registerPending' = registerPending
            /\ authError' \in {"Passwords do not match",
                                "Password must be at least 6 characters long"}]_vars

\* a submission rejected for its length, with no request in flight
C8_Witness ==
    /\ HasRegisterForm(location)
    /\ authError = "Password must be at least 6 characters long"
    /\ registerPending = 0

\* C9: the redirect to /login is scheduled only by an ok response, beside the
\* success notification, and fires only after 2000 ms; a non-ok response, a
\* network failure or a validation rejection schedules nothing and does not
\* navigate.
C9_RegisterRedirect ==
    [][/\ \A t \in timers' :
            t.kind = "redirect" => (t.delay = 2000 /\ authSuccess' # Absent)
       /\ \A t \in timers : RedirectFire(t) => t.elapsed >= 2000
       /\ registerPending > 0 => \A r \in FailedRegisterResponses :
            RegisterResume(r) =>
               (timers' = timers /\ location' = location /\ page' = page)
       /\ HasRegisterForm(location) => \A password, confirmPassword \in Passwords :
            (RegisterSubmit(password, confirmPassword)
               /\ ~(password = confirmPassword /\ Len(password) >= 6)) =>
               (timers' = timers /\ location' = location /\ page' = page)]_vars

\* the 2 seconds after a successful registration have elapsed
C9_Witness ==
    /\ location = "/register"
    /\ authSuccess # Absent
    /\ \E t \in timers : t.kind = "redirect" /\ t.elapsed = 2000

InactivityPending == \E t \in timers : t.kind = "inactivity"

\* C10: the inactivity subsystem is armed at initialization iff auth_token is
\* present, never later; on a document loaded as a guest no countdown is
\* pending and no inactivity prompt is open.
C10_ArmedIffTokenAtInit ==
    [][/\ (page = "loading" /\ page' = "ready") =>
            /\ armed' <=> HasToken(store)
            /\ armed' => InactivityPending'
       /\ (page = "ready" /\ page' = "ready") => armed' = armed
       /\ ~armed' => (~InactivityPending' /\ dialog' # "inactivity")]_vars

\* an armed document whose countdown has run for a while
C10_Witness ==
    /\ armed
    /\ HasToken(store)
    /\ \E t \in timers : t.kind = "inactivity" /\ t.elapsed > 0

\* a document loaded as a guest that has since tried to log in
C10_GuestWitness ==
    /\ page = "ready"
    /\ ~armed
    /\ authError = "Login failed"

InactivityTimers(ts) == {t \in ts : t.kind = "inactivity"}

\* C11: while armed, every activity event restarts the countdown from the
\* full threshold, and the inactivity prompt fires only when 30 minutes
\* (1800000 ms) have passed on the countdown started by the latest reset.
C11_ActivityRestartsCountdown ==
    [][/\ (armed /\ Ready) => \A event \in ActivityEvents :
            Activity(event) =>
               /\ \E t \in timers' :
                    /\ t.id = timeout'
                    /\ t.kind = "inactivity"
                    /\ t.elapsed = 0
                    /\ t.delay = 1800000
               /\ \A t \in InactivityTimers(timers') : t.elapsed = 0
       /\ \A t \in timers : InactivityFire(t) => t.elapsed >= 1800000
       /\ (dialog # "inactivity" /\ dialog' = "inactivity") =>
            /\ idle >= 1800000
            /\ \E t \in InactivityTimers(timers) \ timers' : t.elapsed >= 1800000]_vars

\* time has passed on this document and the countdown is back at zero
C11_Witness ==
    /\ page = "ready"
    /\ armed
    /\ dialog = "none"
    /\ ticks > 0
    /\ \E t \in timers : t.kind = "inactivity" /\ t.id = timeout /\ t.elapsed = 0

StrengthConditions == {"length", "lowercase", "uppercase", "digit", "special"}

\* whether credential pw satisfies condition c of the five
Satisfies(pw, c) ==
    CASE c = "length" -> Len(pw) >= 8
      [] c = "lowercase" -> \E i \in DOMAIN pw : pw[i] \in Lowercase
      [] c = "uppercase" -> \E i \in DOMAIN pw : pw[i] \in Uppercase
      [] c = "digit" -> \E i \in DOMAIN pw : pw[i] \in Digits
      [] c = "special" -> \E i \in DOMAIN pw : pw[i] \notin (Lowercase \cup Uppercase \cup Digits)

Satisfied(pw) == {c \in StrengthConditions : Satisfies(pw, c)}

Prefixes(pw) == {SubSeq(pw, 1, n) : n \in 0 .. Len(pw)}

\* C12: the score of checkPasswordStrength is the number of satisfied
\* conditions among the five, so it lies in 0..5 and does not decrease when
\* more conditions are satisfied; the feedback is "Strong password!" iff the
\* score is 5; the empty string scores 0 with all five categories listed.
C12_StrengthScore ==
    /\ strength = checkPasswordStrength(candidate)
    /\ strength.score = Cardinality(Satisfied(candidate))
    /\ strength.score \in 0 .. 5
    /\ strength.maxScore = 5
    /\ (strength.feedback = "Strong password!") <=> (strength.score = 5)
    /\ \A q \in Prefixes(candidate) :
         Satisfied(q) \subseteq Satisfied(candidate) =>
            checkPasswordStrength(q).score <= strength.score
    /\ candidate = <<>> =>
         /\ strength.score = 0
         /\ strength.feedback = "Add: At least 8 characters, Lowercase letters, Uppercase letters, Numbers, Special characters"

\* a credential of 8 characters with all five conditions satisfied
C12_Witness ==
    /\ Len(candidate) = 8
    /\ strength.score = 5
    /\ strength.feedback = "Strong password!"

FullCountdown(ts, h) ==
    /\ InactivityTimers(ts) # {}
    /\ \A t \in InactivityTimers(ts) : t.id = h /\ t.elapsed = 0 /\ t.delay = 1800000

\* C13: from the open inactivity prompt, 'stay logged in' returns to the
\* active state with the countdown restarted in full and the store unchanged;
\* declining removes auth_token and user_data and navigates to
\* /login?timeout=true.
C13_PromptOutcomes ==
    [][dialog = "inactivity" =>
         /\ InactivityAnswer(TRUE) =>
              /\ store' = store
              /\ location' = location
              /\ page' = "ready"
              /\ dialog' = "none"
              /\ armed'
              /\ FullCountdown(timers', timeout')
         /\ InactivityAnswer(FALSE) =>
              /\ ~HasToken(store') /\ ~HasUser(store')
              /\ store'["remember_me"] = store["remember_me"]
              /\ store'["remembered_username"] = store["remembered_username"]
              /\ location' = "/login?timeout=true"
              /\ page' = "loading"]_vars

\* the login page reached by a declined prompt, loaded as a guest
C13_Witness ==
    /\ location = "/login?timeout=true"
    /\ page = "ready"
    /\ links = updateUIForGuest
    /\ ~armed
    /\ ~HasToken(store) /\ ~HasUser(store)

\* C14: when the countdown elapses the prompt is shown only if auth_token is
\* present at that moment; with the token removed in the meantime the expiry
\* shows no prompt, changes no store key and does not navigate.
C14_ExpiryChecksToken ==
    [][\A t \in InactivityTimers(timers) :
         InactivityFire(t) =>
            /\ dialog' = "inactivity" <=> HasToken(store)
            /\ store' = store
            /\ location' = location
            /\ page' = page]_vars

\* an armed document whose countdown expired silently after another tab
\* removed the token
C14_Witness ==
    /\ page = "ready"
    /\ armed
    /\ dialog = "none"
    /\ ~HasToken(store)
    /\ InactivityTimers(timers) = {}

\* C15: at most one inactivity countdown is pending in a tab, and none while
\* the prompt is open, so one period of inactivity prompts once.
C15_OneCountdown ==
    /\ Cardinality(InactivityTimers(timers)) <= 1
    /\ \A t \in InactivityTimers(timers) : t.id = timeout
    /\ dialog = "inactivity" => InactivityTimers(timers) = {}

\* a countdown restarted by activity while another timer of the document
\* keeps running
C15_Witness ==
    /\ armed
    /\ \E t \in timers : t.kind = "redirect" /\ t.elapsed > 0
    /\ \E t \in timers : t.kind = "inactivity" /\ t.elapsed = 0

====
